---------------------------- MODULE Spec2Model ----------------------------
(***************************************************************************)
(* Model of src/app.py: a Streamlit page that stores two API keys in the   *)
(* session, takes a research topic and, on "Start Research", runs the      *)
(* pipeline  get_gemini_model -> deep_research (Firecrawl) -> draft        *)
(* generation (Gemini) -> enhancement generation (Gemini) -> render.       *)
(*                                                                         *)
(* Texts are sequences of words; Python's  "Failed" in text  is modelled   *)
(* on the words of the text.  An optional value (a local that is not yet   *)
(* bound, an empty placeholder) is a sequence of length 0 or 1.            *)
(* One state is the page between two external events: the script idle      *)
(* after a script run, or a run suspended in one of its three API calls.   *)
(***************************************************************************)
EXTENDS Integers, Sequences, FiniteSets, TLC

VARIABLES
    gemini_api_key,     \* st.session_state.gemini_api_key
    firecrawl_api_key,  \* st.session_state.firecrawl_api_key
    gemini_input,       \* value of the "Gemini API Key" field in this script run
    firecrawl_input,    \* value of the "Firecrawl API Key" field in this script run
    research_topic,     \* value of the topic field in this script run
    start_disabled,     \* the disabled= argument the Start Research button was rendered with
    pc,                 \* "idle", or the API call the run is suspended in
    log,                \* the stages of the current script run, in order
    research_results,   \* local of run_research_with_gemini
    research_prompt,    \* local of run_research_with_gemini
    initial_report,     \* local of run_research_process
    enhanced_report,    \* local of run()
    errors,             \* st.error messages shown by this script run
    warnings,           \* st.warning messages shown by this script run
    expander,           \* content of "View Initial Research Report"
    report_placeholder, \* content of report_placeholder (st.empty)
    download,           \* the download button rendered by this script run
    outcome             \* branch run() took: "none", "Success" or "Failure"

vars == <<gemini_api_key, firecrawl_api_key, gemini_input, firecrawl_input,
          research_topic, start_disabled, pc, log, research_results,
          research_prompt, initial_report, enhanced_report, errors, warnings,
          expander, report_placeholder, download, outcome>>

keyVars == <<gemini_api_key, firecrawl_api_key, gemini_input, firecrawl_input,
             research_topic, start_disabled>>

--------------------------------------------------------------------------
(* Bounds and program constants *)

MaxSources == 7

PreviewCap == 5

MaxDepth == 3

TimeLimit == 180

MaxUrls == 10

GeminiKeys == {"", "g-key-1", "g-key-2"}

FirecrawlKeys == {"", "fc-key"}

Topics == {<<>>, <<"Quantum", "computing">>}

Min(a, b) == IF a < b THEN a ELSE b

--------------------------------------------------------------------------
(* Texts *)

ContainsFailed(text) == \E i \in DOMAIN text : text[i] = "Failed"

FirecrawlKeyMissingShown == <<"Firecrawl", "API", "key", "is", "missing.">>

FirecrawlKeyMissing == <<"Firecrawl", "API", "key", "is", "missing">>

InvalidResponseShown == <<"Invalid", "response", "from", "Firecrawl", "API.">>

InvalidResponse == <<"Invalid", "Firecrawl", "response">>

DeepResearchErrorShown(msg) ==
    <<"Deep", "research", "error:">> \o msg \o <<"Check", "API", "key", "or", "network.">>

KeyErrorSources == <<"'sources'">>

GeminiKeyMissingShown == <<"Gemini", "API", "key", "is", "missing.">>

ModelInitErrorShown(msg) == <<"Error", "initializing", "Gemini", "model:">> \o msg

ModelInitFailed ==
    <<"Failed", "to", "initialize", "Gemini", "model.",
      "Please", "check", "your", "API", "key.">>

ResearchFailed(error) == <<"Research", "failed:">> \o error

GenerationErrorShown(msg) == <<"Gemini", "generation", "error:">> \o msg

EnhancementErrorShown(msg) == <<"Gemini", "enhancement", "error:">> \o msg

\* variant of DraftFailed: the message in the case of "Research failed:"
DraftFailedLower(msg) == <<"failed", "to", "generate", "report:">> \o msg

DraftFailed(msg) == <<"Failed", "to", "generate", "report:">> \o msg

EnhanceFailed(msg) == <<"Failed", "to", "enhance", "report:">> \o msg

ReportHeader == <<"##", "Enhanced", "Research", "Report">>

NoSummary == <<"No", "summary", "available">>

BothKeysWarning == <<"Please", "enter", "both", "API", "keys", "in", "the", "sidebar.">>

TopicWarning == <<"Please", "enter", "a", "research", "topic.">>

\* research_topic.replace(' ', '_') followed by "_report.md"
RECURSIVE ReplaceSpaces(_)
ReplaceSpaces(words) ==
    IF Len(words) <= 1 THEN words
    ELSE <<Head(words), "_">> \o ReplaceSpaces(Tail(words))

FileName(topic) == ReplaceSpaces(topic) \o <<"_report.md">>

--------------------------------------------------------------------------
(* Session credentials and the trigger (lines 15-49, 203) *)

\* variant of StoreKey: the field is stored unconditionally
StoreKeyAlways(stored, input) == input

\* lines 35-38: the stored key is overwritten only by a non-empty field
StoreKey(stored, input) == IF input # "" THEN input ELSE stored

\* variant of ButtonDisabled: the topic is not looked at
ButtonDisabledKeysOnly(gemini, firecrawl, topic) ==
    ~(gemini # "" /\ firecrawl # "")

\* line 203: disabled=not (gemini_api_key and firecrawl_api_key and research_topic)
ButtonDisabled(gemini, firecrawl, topic) ==
    ~(gemini # "" /\ firecrawl # "" /\ topic # <<>>)

--------------------------------------------------------------------------
(* The research API and deep_research (lines 52-89) *)

Source(i, hasUrl, hasSummary) ==
    IF hasUrl /\ hasSummary
    THEN [title |-> <<"title", i>>, url |-> <<"url", i>>, summary |-> <<"summary", i>>]
    ELSE IF hasUrl THEN [title |-> <<"title", i>>, url |-> <<"url", i>>]
    ELSE IF hasSummary THEN [title |-> <<"title", i>>, summary |-> <<"summary", i>>]
    ELSE [title |-> <<"title", i>>]

SourceLists ==
    UNION { { [i \in 1..n |-> Source(i, i \in U, s)] : U \in SUBSET (1..n), s \in BOOLEAN }
            : n \in 0..MaxSources }

FinalAnalysis == <<"analysis", "of", "the", "topic">>

Payloads ==
    { [data |-> [finalAnalysis |-> FinalAnalysis, sources |-> s]] : s \in SourceLists }
    \cup { [data |-> [finalAnalysis |-> FinalAnalysis]],
           [data |-> [sources |-> <<Source(1, TRUE, TRUE)>>]],
           [data |-> [status |-> "completed"]],
           [success |-> FALSE] }

ResearchExceptions == { <<"timeout">>, <<"Failed", "to", "connect">> }

ApiOutcomes ==
    { [raised |-> FALSE, results |-> p] : p \in Payloads }
    \cup { [raised |-> TRUE, msg |-> m] : m \in ResearchExceptions }

\* the fields the returned payload lacks (none when the call raised)
Missing(api) ==
    IF api.raised THEN {}
    ELSE IF "data" \notin DOMAIN api.results THEN {"data", "finalAnalysis", "sources"}
    ELSE {"finalAnalysis", "sources"} \ DOMAIN api.results.data

Request(query) ==
    [query |-> query,
     params |-> [maxDepth |-> MaxDepth, timeLimit |-> TimeLimit, maxUrls |-> MaxUrls]]

\* lines 87-89
ResearchError(msg) ==
    [ret |-> [error |-> msg, success |-> FALSE],
     shown |-> <<DeepResearchErrorShown(msg)>>,
     called |-> TRUE]

\* deep_research: the returned dict, the st.error messages, whether the API was called
deep_research(key, api) ==
    IF key = ""
    THEN [ret |-> [error |-> FirecrawlKeyMissing, success |-> FALSE],
          shown |-> <<FirecrawlKeyMissingShown>>,
          called |-> FALSE]
    ELSE IF api.raised THEN ResearchError(api.msg)
    ELSE LET results == api.results IN
         IF "data" \notin DOMAIN results \/ "finalAnalysis" \notin DOMAIN results.data
         THEN [ret |-> [error |-> InvalidResponse, success |-> FALSE],
               shown |-> <<InvalidResponseShown>>,
               called |-> TRUE]
         ELSE IF "sources" \notin DOMAIN results.data
         THEN ResearchError(KeyErrorSources)   \* KeyError at line 84, caught at line 87
         ELSE [ret |-> [success |-> TRUE,
                        final_analysis |-> results.data.finalAnalysis,
                        sources_count |-> Len(results.data.sources),
                        sources |-> results.data.sources],
               shown |-> <<>>,
               called |-> TRUE]

--------------------------------------------------------------------------
(* get_gemini_model (lines 92-101) and the generation API *)

ModelName == <<"gemini-1.5-flash">>

ModelInits == { [raised |-> FALSE], [raised |-> TRUE, msg |-> <<"unknown", "model">>] }

get_gemini_model(key, init) ==
    IF key = "" THEN [model |-> <<>>, shown |-> <<GeminiKeyMissingShown>>]
    ELSE IF init.raised THEN [model |-> <<>>, shown |-> <<ModelInitErrorShown(init.msg)>>]
    ELSE [model |-> ModelName, shown |-> <<>>]

GenTexts ==
    { <<"Draft", "report">>, <<"Enhanced", "report">>,
      <<"Why", "experiments", "Failed">> }

GenExceptions == { <<"quota", "exceeded">> }

GenOutcomes ==
    { [raised |-> FALSE, text |-> t] : t \in GenTexts }
    \cup { [raised |-> TRUE, msg |-> m] : m \in GenExceptions }

--------------------------------------------------------------------------
(* run_research_with_gemini after the research call (lines 117-145) *)

Slice(s, n) == SubSeq(s, 1, Min(n, Len(s)))

\* the entries of sources_text: i is the 1-based position, printed as "Source {i+1}"
RECURSIVE PreviewFrom(_, _)
PreviewFrom(sl, i) ==
    IF i > Len(sl) THEN <<>>
    ELSE IF "url" \in DOMAIN sl[i]
    THEN << [label |-> i,
             url |-> sl[i].url,
             summary |-> IF "summary" \in DOMAIN sl[i] THEN sl[i].summary ELSE NoSummary] >>
         \o PreviewFrom(sl, i + 1)
    ELSE PreviewFrom(sl, i + 1)

\* variant of SourcesText: the slice is one source longer
SourcesTextSix(sources) == PreviewFrom(Slice(sources, PreviewCap + 1), 1)

\* lines 121-125
SourcesText(sources) == PreviewFrom(Slice(sources, PreviewCap), 1)

ResearchSucceeded(r) == IF "success" \in DOMAIN r THEN r.success ELSE FALSE

ErrorOf(r) == IF "error" \in DOMAIN r THEN r.error ELSE <<"Unknown", "error">>

\* lines 127-145: the parts the f-string embeds
DraftPrompt(query, r) ==
    [query |-> query,
     final_analysis |-> r.final_analysis,
     sources_count |-> r.sources_count,
     sources_text |-> SourcesText(r.sources)]

\* variant of ResearchStage: no early return, the fields read with defaults
ResearchStageUnchecked(query, r) ==
    [proceed |-> TRUE,
     prompt |-> [query |-> query,
                 final_analysis |-> IF "final_analysis" \in DOMAIN r
                                    THEN r.final_analysis ELSE <<>>,
                 sources_count |-> IF "sources_count" \in DOMAIN r
                                   THEN r.sources_count ELSE 0,
                 sources_text |-> IF "sources" \in DOMAIN r
                                  THEN SourcesText(r.sources) ELSE <<>>]]

\* lines 117-145: the early return, or the prompt of the draft call
ResearchStage(query, r) ==
    IF ~ResearchSucceeded(r)
    THEN [proceed |-> FALSE, report |-> ResearchFailed(ErrorOf(r))]
    ELSE [proceed |-> TRUE, prompt |-> DraftPrompt(query, r)]

--------------------------------------------------------------------------
(* The stage log *)

Entry(stage, called, ok, raised, missing, error, out, request) ==
    [stage |-> stage, called |-> called, ok |-> ok, raised |-> raised,
     missing |-> missing, error |-> error, out |-> out, request |-> request]

ResearchEntry(query, api, d) ==
    Entry("research", d.called, ResearchSucceeded(d.ret),
          d.called /\ api.raised,
          IF d.called THEN Missing(api) ELSE {},
          IF ResearchSucceeded(d.ret) THEN <<>> ELSE <<ErrorOf(d.ret)>>,
          <<>>,
          IF d.called THEN <<Request(query)>> ELSE <<>>)

GenEntry(stage, gen) ==
    Entry(stage, TRUE, ~gen.raised, gen.raised, {}, 
          IF gen.raised THEN <<gen.msg>> ELSE <<>>,
          IF gen.raised THEN <<>> ELSE <<gen.text>>,
          <<>>)

InitEntry(stage, m) ==
    Entry(stage, FALSE, FALSE, FALSE, {}, m.shown, <<>>, <<>>)

--------------------------------------------------------------------------
(* The page *)

Init ==
    /\ gemini_api_key = ""
    /\ firecrawl_api_key = ""
    /\ gemini_input = ""
    /\ firecrawl_input = ""
    /\ research_topic = <<>>
    /\ start_disabled = ButtonDisabled("", "", <<>>)
    /\ pc = "idle"
    /\ log = <<>>
    /\ research_results = <<>>
    /\ research_prompt = <<>>
    /\ initial_report = <<>>
    /\ enhanced_report = <<>>
    /\ errors = <<>>
    /\ warnings = <<>>
    /\ expander = <<>>
    /\ report_placeholder = <<>>
    /\ download = <<>>
    /\ outcome = "none"

\* lines 15-49 and 203 of one script run with the field values g, f and topic t
ScriptTop(g, f, t) ==
    /\ gemini_input' = g
    /\ firecrawl_input' = f
    /\ research_topic' = t
    /\ gemini_api_key' = StoreKey(gemini_api_key, g)
    /\ firecrawl_api_key' = StoreKey(firecrawl_api_key, f)
    /\ start_disabled' = ButtonDisabled(gemini_api_key', firecrawl_api_key', t)

\* an st.empty() placeholder holds the last element written to it
PlaceholderShows(writes) == <<writes[Len(writes)]>>

\* run(), lines 213-223, with enhanced_report = report and the errors shown so far
RunEnds(report, errs) ==
    /\ enhanced_report' = <<report>>
    /\ IF ~ContainsFailed(report)
       THEN /\ report_placeholder' = PlaceholderShows(<<ReportHeader, report>>)
            /\ download' = << [data |-> report, file_name |-> FileName(research_topic)] >>
            /\ errors' = errs
            /\ outcome' = "Success"
       ELSE /\ report_placeholder' = <<>>
            /\ download' = <<>>
            /\ errors' = Append(errs, report)
            /\ outcome' = "Failure"
    /\ pc' = "idle"

\* run_research_process, lines 191-198, with initial_report = report, up to the
\* enhancement call
AfterInitialReport(report, errs, entries, init) ==
    /\ initial_report' = <<report>>
    /\ IF ContainsFailed(report)
       THEN /\ expander' = <<>>
            /\ log' = log \o entries
            /\ RunEnds(report, errs)
       ELSE /\ expander' = <<report>>
            /\ LET m == get_gemini_model(gemini_api_key, init) IN
               IF m.model = <<>>
               THEN /\ log' = log \o entries \o <<InitEntry("enhance", m)>>
                    /\ RunEnds(ModelInitFailed, errs \o m.shown)
               ELSE /\ log' = log \o entries
                    /\ pc' = "enhance"
                    /\ errors' = errs
                    /\ UNCHANGED <<enhanced_report, report_placeholder, download, outcome>>

\* A field edit: the script reruns with the button not clicked.  Streamlit
\* reruns the script on every widget event, also while a run is suspended in
\* an API call; the suspended run is then abandoned.
Rerun ==
    /\ \E g \in GeminiKeys, f \in FirecrawlKeys, t \in Topics :
          /\ <<g, f, t>> # <<gemini_input, firecrawl_input, research_topic>>
          /\ ScriptTop(g, f, t)
    /\ pc' = "idle"
    /\ log' = <<>>
    /\ research_results' = <<>>
    /\ research_prompt' = <<>>
    /\ initial_report' = <<>>
    /\ enhanced_report' = <<>>
    /\ errors' = <<>>
    /\ warnings' = <<>>
    /\ expander' = <<>>
    /\ report_placeholder' = <<>>
    /\ download' = <<>>
    /\ outcome' = "none"

\* A click on Start Research, possible only on a button rendered enabled: the
\* script reruns with the button clicked and the field values g, f, t the
\* browser sends with the click (lines 15-49, 203-212 and
\* run_research_with_gemini up to the research call)
StartResearch ==
    /\ ~start_disabled
    /\ \E g \in GeminiKeys, f \in FirecrawlKeys, t \in Topics : ScriptTop(g, f, t)
    /\ research_results' = <<>>
    /\ research_prompt' = <<>>
    /\ expander' = <<>>
    /\ IF gemini_api_key' = "" \/ firecrawl_api_key' = ""
       THEN /\ warnings' = <<BothKeysWarning>>
            /\ pc' = "idle"
            /\ log' = <<>>
            /\ initial_report' = <<>>
            /\ enhanced_report' = <<>>
            /\ errors' = <<>>
            /\ report_placeholder' = <<>>
            /\ download' = <<>>
            /\ outcome' = "none"
       ELSE IF research_topic' = <<>>
       THEN /\ warnings' = <<TopicWarning>>
            /\ pc' = "idle"
            /\ log' = <<>>
            /\ initial_report' = <<>>
            /\ enhanced_report' = <<>>
            /\ errors' = <<>>
            /\ report_placeholder' = <<>>
            /\ download' = <<>>
            /\ outcome' = "none"
       ELSE /\ warnings' = <<>>
            /\ \E init \in ModelInits :
                 LET m == get_gemini_model(gemini_api_key', init) IN
                 IF m.model = <<>>
                 THEN /\ initial_report' = <<ModelInitFailed>>
                      /\ log' = <<InitEntry("model_init", m)>>
                      /\ RunEnds(ModelInitFailed, m.shown)
                 ELSE /\ pc' = "research"
                      /\ log' = <<>>
                      /\ initial_report' = <<>>
                      /\ enhanced_report' = <<>>
                      /\ errors' = <<>>
                      /\ report_placeholder' = <<>>
                      /\ download' = <<>>
                      /\ outcome' = "none"

\* The research call returns (lines 110-145; on failure also lines 189-198)
ResearchReturns ==
    /\ pc = "research"
    /\ \E api \in ApiOutcomes, init \in ModelInits :
         LET d == deep_research(firecrawl_api_key, api)
             entry == ResearchEntry(research_topic, api, d)
             st == ResearchStage(research_topic, d.ret)
         IN IF st.proceed
            THEN /\ research_results' = <<d.ret>>
                 /\ research_prompt' = <<st.prompt>>
                 /\ pc' = "draft"
                 /\ log' = Append(log, entry)
                 /\ errors' = errors \o d.shown
                 /\ UNCHANGED <<initial_report, enhanced_report, expander,
                                report_placeholder, download, outcome>>
            ELSE /\ research_results' = <<>>
                 /\ research_prompt' = <<>>
                 /\ AfterInitialReport(st.report, errors \o d.shown, <<entry>>, init)
    /\ UNCHANGED <<keyVars, warnings>>

\* variant of DraftReturns: a raised generation call is made again
DraftRetried ==
    /\ pc = "draft"
    /\ \E gen \in GenOutcomes, init \in ModelInits :
         LET report == IF gen.raised THEN DraftFailed(gen.msg) ELSE gen.text
             shown == IF gen.raised THEN <<GenerationErrorShown(gen.msg)>> ELSE <<>>
         IN IF gen.raised /\ Len(log) < 3
            THEN /\ log' = Append(log, GenEntry("draft", gen))
                 /\ errors' = errors \o shown
                 /\ UNCHANGED <<pc, research_results, research_prompt, initial_report,
                                enhanced_report, expander, report_placeholder,
                                download, outcome>>
            ELSE /\ research_results' = <<>>
                 /\ research_prompt' = <<>>
                 /\ AfterInitialReport(report, errors \o shown,
                                       <<GenEntry("draft", gen)>>, init)
    /\ UNCHANGED <<keyVars, warnings>>

\* The draft generation call returns (lines 147-152, 189-198)
DraftReturns ==
    /\ pc = "draft"
    /\ \E gen \in GenOutcomes, init \in ModelInits :
         LET report == IF gen.raised THEN DraftFailed(gen.msg) ELSE gen.text
             shown == IF gen.raised THEN <<GenerationErrorShown(gen.msg)>> ELSE <<>>
         IN /\ research_results' = <<>>
            /\ research_prompt' = <<>>
            /\ AfterInitialReport(report, errors \o shown,
                                  <<GenEntry("draft", gen)>>, init)
    /\ UNCHANGED <<keyVars, warnings>>

\* The enhancement generation call returns (lines 179-184, 198-223)
EnhanceReturns ==
    /\ pc = "enhance"
    /\ \E gen \in GenOutcomes :
         LET report == IF gen.raised THEN EnhanceFailed(gen.msg) ELSE gen.text
             shown == IF gen.raised THEN <<EnhancementErrorShown(gen.msg)>> ELSE <<>>
         IN /\ log' = Append(log, GenEntry("enhance", gen))
            /\ RunEnds(report, errors \o shown)
    /\ UNCHANGED <<keyVars, warnings, research_results, research_prompt,
                   initial_report, expander>>

Next ==
    \/ Rerun
    \/ StartResearch
    \/ ResearchReturns
    \/ DraftReturns
    \/ EnhanceReturns

Spec == Init /\ [][Next]_vars

--------------------------------------------------------------------------
(* Properties.  The log holds the stages of the current run: a called entry *)
(* is an API call that was made, ok its result, out the text it returned.   *)

Called(i, stage) == log[i].stage = stage /\ log[i].called

GenerationCalls == { i \in DOMAIN log : log[i].stage \in {"draft", "enhance"} /\ log[i].called }

ResearchStageFailed(i) == log[i].stage = "research" /\ ~log[i].ok

RunOver == pc = "idle"

Rank(stage) ==
    CASE stage = "research" -> 1
      [] stage = "draft" -> 2
      [] stage = "enhance" -> 3
      [] OTHER -> 0

\* C1: after a failed research stage the run makes no generation call (draft
\* or enhancement) and, once over, its outcome is Failure.
C1_ResearchFailureStopsRun ==
    \A i \in DOMAIN log :
        ResearchStageFailed(i) =>
            /\ \A j \in GenerationCalls : j < i
            /\ pc \notin {"draft", "enhance"}
            /\ RunOver => outcome = "Failure"

\* C2: a research payload that lacks finalAnalysis or lacks sources ends the
\* research stage with the InvalidResponse failure, and no draft generation
\* call is made.
C2_IncompletePayloadIsInvalidResponse ==
    \A i \in DOMAIN log :
        ( /\ Called(i, "research")
          /\ ~log[i].raised
          /\ log[i].missing \cap {"finalAnalysis", "sources"} # {} )
        => /\ ~log[i].ok
           /\ log[i].error = <<InvalidResponse>>
           /\ \A j \in DOMAIN log : ~Called(j, "draft")
           /\ pc # "draft"

\* C3: when the draft generation call raises, enhancement is not invoked: the
\* generation API was called exactly once, the run is over with outcome
\* Failure, and the error shown is the draft-generation failure message.
C3_DraftFailureSkipsEnhancement ==
    \A i \in DOMAIN log :
        (Called(i, "draft") /\ log[i].raised) =>
            /\ Cardinality(GenerationCalls) = 1
            /\ \A j \in DOMAIN log : log[j].stage # "enhance"
            /\ RunOver
            /\ outcome = "Failure"
            /\ enhanced_report
                 = << <<"Failed", "to", "generate", "report:">> \o log[i].error[1] >>
            /\ errors[Len(errors)] = enhanced_report[1]
            /\ report_placeholder = <<>>
            /\ download = <<>>

C3_Witness ==
    /\ RunOver
    /\ \E i \in DOMAIN log : Called(i, "draft") /\ log[i].raised
    /\ \E i \in DOMAIN log : Called(i, "research") /\ log[i].ok

\* C4: the draft generation call is made (in flight or returned) only after
\* the research call of the same run returned success, with both stored
\* credentials non-empty.
C4_DraftOnlyAfterResearchSuccess ==
    LET ResearchOkBefore(n) ==
            \E j \in 1..n : /\ Called(j, "research")
                            /\ log[j].ok
                            /\ ~log[j].raised
                            /\ log[j].missing = {}
    IN /\ pc = "draft" =>
            /\ ResearchOkBefore(Len(log))
            /\ gemini_api_key # "" /\ firecrawl_api_key # ""
       /\ \A i \in DOMAIN log :
            Called(i, "draft") =>
                /\ ResearchOkBefore(i - 1)
                /\ gemini_api_key # "" /\ firecrawl_api_key # ""

C4_Witness ==
    /\ \E i \in DOMAIN log : Called(i, "draft") /\ log[i].ok
    /\ \E i \in DOMAIN log : Called(i, "research") /\ log[i].ok

\* C5: while a stored credential or the topic is empty, the Start Research
\* button is rendered disabled, no run is in progress and the script run has
\* made no research or generation call.
C5_EmptyCredentialDisablesTrigger ==
    (gemini_api_key = "" \/ firecrawl_api_key = "" \/ research_topic = <<>>) =>
        /\ start_disabled
        /\ pc = "idle"
        /\ \A i \in DOMAIN log : ~log[i].called

C5_Witness ==
    /\ gemini_api_key # ""
    /\ firecrawl_api_key # ""
    /\ research_topic = <<>>
    /\ gemini_input = ""
    /\ start_disabled

\* C6: a run in which a stage failed shows an error message and renders no
\* final report and no download button.
C6_FailedRunRendersNothing ==
    (RunOver /\ \E i \in DOMAIN log : ~log[i].ok) =>
        /\ errors # <<>>
        /\ report_placeholder = <<>>
        /\ download = <<>>

\* C7: when research succeeded and both generation calls returned text, the
\* run's outcome is Success and the report rendered and offered for download
\* is the text the enhancement call returned.
C7_SuccessRendersEnhancementOutput ==
    \A i, j, k \in DOMAIN log :
        ( /\ RunOver
          /\ Called(i, "research") /\ log[i].ok
          /\ Called(j, "draft") /\ log[j].ok
          /\ Called(k, "enhance") /\ log[k].ok )
        => /\ outcome = "Success"
           /\ report_placeholder = log[k].out
           /\ Len(download) = 1
           /\ download[1].data = log[k].out[1]

\* The url-bearing sources among the first n of a list, as positions
UrlPositions(sources, n) ==
    { i \in 1..Min(n, Len(sources)) : "url" \in DOMAIN sources[i] }

Labels(preview) == { preview[k].label : k \in DOMAIN preview }

PreviewFaithful(sources, preview) ==
    /\ \A k \in DOMAIN preview :
          LET source == sources[preview[k].label] IN
          /\ preview[k].url = source.url
          /\ preview[k].summary = IF "summary" \in DOMAIN source
                                  THEN source.summary
                                  ELSE <<"No", "summary", "available">>
    /\ \A k \in 1..(Len(preview) - 1) : preview[k].label < preview[k + 1].label
    /\ Cardinality(Labels(preview)) = Len(preview)

\* C8 (as stated): with 7 returned sources the draft prompt previews exactly
\* the first 5 sources that have a url, and its total count is 7.
C8_PreviewIsFirstFiveWithUrls ==
    (pc = "draft" /\ Len(research_results[1].sources) = 7) =>
        LET sources == research_results[1].sources
            preview == research_prompt[1].sources_text
            withUrl == UrlPositions(sources, Len(sources))
            firstFive == { i \in withUrl :
                             Cardinality({ j \in withUrl : j < i }) < PreviewCap }
        IN /\ research_prompt[1].sources_count = 7
           /\ Labels(preview) = firstFive
           /\ PreviewFaithful(sources, preview)

\* C8 (amended): the draft prompt carries the number of all returned sources,
\* with or without url, and previews, in returned order, exactly those of the
\* first 5 returned sources that have a url.
C8_PreviewIsUrlSourcesAmongFirstFive ==
    pc = "draft" =>
        LET sources == research_results[1].sources
            preview == research_prompt[1].sources_text
        IN /\ research_prompt[1].sources_count = Len(sources)
           /\ Len(preview) <= PreviewCap
           /\ Labels(preview) = UrlPositions(sources, PreviewCap)
           /\ PreviewFaithful(sources, preview)

C8_Witness ==
    /\ pc = "draft"
    /\ Len(research_results[1].sources) = 7
    /\ research_prompt[1].sources_count = 7
    /\ "url" \notin DOMAIN research_results[1].sources[2]
    /\ "url" \in DOMAIN research_results[1].sources[6]
    /\ Labels(research_prompt[1].sources_text) = {1, 3, 4, 5}

\* C9: the API calls of a run are made one at a time in the order research,
\* draft, enhancement, each at most once: a call in flight follows every
\* call already made, and no stage is called again.
C9_CallsSequentialNeverRepeated ==
    LET made == { i \in DOMAIN log : log[i].called } IN
    /\ \A i, j \in made : i < j => Rank(log[i].stage) < Rank(log[j].stage)
    /\ \A i \in made : Rank(log[i].stage) \in 1..3
    /\ pc # "idle" => \A i \in made : Rank(log[i].stage) < Rank(pc)
    /\ pc = "draft" => \E i \in made : log[i].stage = "research"

C9_Witness ==
    /\ RunOver
    /\ Len(log) = 3
    /\ Called(1, "research") /\ Called(2, "draft") /\ Called(3, "enhance")

\* C10: a stored credential that is non-empty stays non-empty in every step;
\* the button's disabled state is computed from the stored keys and the
\* topic, and a run only starts with both stored keys non-empty, whatever
\* the fields hold.
C10_StoredKeyNeverCleared ==
    [][ /\ gemini_api_key # "" => gemini_api_key' # ""
        /\ firecrawl_api_key # "" => firecrawl_api_key' # ""
        /\ gemini_input' = "" => gemini_api_key' = gemini_api_key
        /\ firecrawl_input' = "" => firecrawl_api_key' = firecrawl_api_key
        /\ start_disabled' =
             ~(gemini_api_key' # "" /\ firecrawl_api_key' # "" /\ research_topic' # <<>>)
        /\ pc' # "idle" => (gemini_api_key' # "" /\ firecrawl_api_key' # "")
      ]_vars

C10_Witness ==
    /\ gemini_input = ""
    /\ firecrawl_input = ""
    /\ gemini_api_key # ""
    /\ firecrawl_api_key # ""
    /\ ~start_disabled
    /\ pc = "research"

==========================================================================
